---- MODULE Spec2Model ----
(***************************************************************************)
(* ESG & Controversy Score dashboard (app.py).                             *)
(*                                                                         *)
(* The script is re-executed top to bottom on every user interaction.      *)
(* load_data is memoized by st.cache_data; the rest of the script is a     *)
(* linear sequence of sections, each of which may raise and end the run.   *)
(***************************************************************************)
EXTENDS Integers, Sequences, FiniteSets, TLC

VARIABLES
    disk,              \* path -> file state (the filesystem load_data looks at)
    cache,             \* st.cache_data entry of load_data
    body_runs,         \* how many times the body of load_data has executed
    pc,                \* position of the current script run
    exc,               \* exception that ended the run, "" if none
    messages,          \* st.error / st.warning / st.info elements of the run
    views,             \* tables and charts rendered by the run
    df_raw,            \* line 38
    df,                \* lines 54, 56, 59
    selected_sectors,  \* line 50
    risk_metrics,      \* line 105
    selected_metric,   \* line 106
    sector_mean,       \* line 110
    sort_by,           \* line 123
    top_n,             \* line 126
    ascending,         \* line 128
    sorted_df,         \* line 130
    x_axis,            \* line 153
    y_axis,            \* line 155
    color_by           \* line 157

vars == <<disk, cache, body_runs, pc, exc, messages, views, df_raw, df,
          selected_sectors, risk_metrics, selected_metric, sector_mean,
          sort_by, top_n, ascending, sorted_df, x_axis, y_axis, color_by>>

env == <<disk, cache, body_runs>>

locals == <<df, selected_sectors, risk_metrics, selected_metric, sector_mean,
            sort_by, top_n, ascending, sorted_df, x_axis, y_axis, color_by>>

-----------------------------------------------------------------------------
(* Bounds of the model *)

MaxBodyRuns == 2      \* body_runs saturates here
MaxViewRows == 2      \* rows of the tables of SpecViews
MaxFilterRows == 3    \* rows of the tables of SpecFilter
MaxAggRows == 3       \* rows of the tables of SpecAgg
MaxTopRows == 6       \* rows of the tables of SpecTopN

-----------------------------------------------------------------------------
(* Python values *)

None == [none |-> TRUE]        \* the object None returned by load_data
NoneStr == "<None>"            \* None returned by a selectbox without options
NaN == ""                      \* a blank CSV cell, read by pandas as NaN
Unset == "<unset>"             \* a name not yet bound in this run
NoTable == [columns |-> <<>>, rows |-> <<>>]

Range(s) == {s[i] : i \in 1..Len(s)}

Min(a, b) == IF a < b THEN a ELSE b

\* Python `needle in hay` on str
Contains(hay, needle) ==
    \E i \in 1..(Len(hay) - Len(needle) + 1) :
        SubSeq(hay, i, i + Len(needle) - 1) = needle

\* code-point order of the characters that occur in the model's strings
Alphabet == " 0123456789ABCDEFGHIJKLMNOPQRSTUVWXYZabcdefghijklmnopqrstuvwxyz"

Ord(c) == CHOOSE i \in 1..Len(Alphabet) : SubSeq(Alphabet, i, i) = c

\* Python str.lower()
RECURSIVE Lower(_)
Lower(s) ==
    IF Len(s) = 0 THEN s
    ELSE LET i == Ord(SubSeq(s, 1, 1))
             c == IF SubSeq(s, 1, 1) \in Range(<<"A", "B", "C", "D", "E", "F", "G", "H", "I",
                                                "J", "K", "L", "M", "N", "O", "P", "Q", "R",
                                                "S", "T", "U", "V", "W", "X", "Y", "Z">>)
                  THEN SubSeq(Alphabet, i + 26, i + 26)
                  ELSE SubSeq(s, 1, 1)
         IN c \o Lower(SubSeq(s, 2, Len(s)))

\* Python str.__lt__ (lexicographic by code point)
RECURSIVE StrLess(_, _)
StrLess(a, b) ==
    IF Len(b) = 0 THEN FALSE
    ELSE IF Len(a) = 0 THEN TRUE
    ELSE LET ca == Ord(SubSeq(a, 1, 1))
             cb == Ord(SubSeq(b, 1, 1))
         IN IF ca # cb THEN ca < cb
            ELSE StrLess(SubSeq(a, 2, Len(a)), SubSeq(b, 2, Len(b)))

\* Python sorted() on a collection of distinct str
RECURSIVE sorted(_)
sorted(S) ==
    IF S = {} THEN <<>>
    ELSE LET m == CHOOSE x \in S : \A y \in S : x = y \/ StrLess(x, y)
         IN <<m>> \o sorted(S \ {m})

-----------------------------------------------------------------------------
(* pandas tables: a list of column names and a list of rows, each row a    *)
(* function from the column names to cells                                 *)

HasColumn(t, c) == c \in Range(t.columns)

Column(t, c) == [i \in 1..Len(t.rows) |-> t.rows[i][c]]

\* Series.fillna("Unknown").astype(str) on a column of str / NaN cells
fillna_astype_str(cell) == IF cell = NaN THEN "Unknown" ELSE cell

\* df_raw['Sector'] = df_raw['Sector'].fillna("Unknown").astype(str)
CoerceSector(t) ==
    [t EXCEPT !.rows =
        [i \in 1..Len(t.rows) |->
            [t.rows[i] EXCEPT !["Sector"] = fillna_astype_str(@)]]]

\* faulty variant: the mask negated: df_raw[~df_raw['Sector'].isin(selected)]
FilterIsin_negated(t, selected) ==
    [t EXCEPT !.rows = SelectSeq(t.rows, LAMBDA r : r["Sector"] \notin selected)]

\* df_raw[df_raw['Sector'].isin(selected)]
FilterIsin(t, selected) ==
    [t EXCEPT !.rows = SelectSeq(t.rows, LAMBDA r : r["Sector"] \in selected)]

\* DataFrame.head(n)
head(rows, n) == SubSeq(rows, 1, Min(n, Len(rows)))

-----------------------------------------------------------------------------
(* load_data *)

possible_paths ==
    << "sp500esg.csv",
       "/Users/avaneesh/documents/UMich Python/sp500esg.csv",
       "esg_project/sp500esg.csv" >>

Absent == [kind |-> "absent"]
Corrupt == [kind |-> "corrupt"]
Csv(t) == [kind |-> "csv", table |-> t]

os_path_exists(d, path) == d[path].kind # "absent"

\* pd.read_csv(path) returns instead of raising
read_csv_parses(d, path) == d[path].kind = "csv"

ReadErrorMsg(path) == [level |-> "error", text |-> "Error reading file", path |-> path]
NotFoundMsg == [level |-> "error", text |-> "Could not find the dataset", path |-> ""]

\* the for loop of load_data from candidate i on, msgs emitted so far
RECURSIVE load_from(_, _, _)
load_from(d, i, msgs) ==
    IF i > Len(possible_paths)
    THEN [value |-> None, messages |-> Append(msgs, NotFoundMsg)]
    ELSE LET path == possible_paths[i]
         IN IF os_path_exists(d, path)
            THEN IF read_csv_parses(d, path)
                 THEN [value |-> d[path].table, messages |-> msgs]
                 ELSE load_from(d, i + 1, Append(msgs, ReadErrorMsg(path)))
            ELSE load_from(d, i + 1, msgs)

\* faulty variant: the loop gives up at the first candidate that fails to parse
RECURSIVE load_from_stops(_, _, _)
load_from_stops(d, i, msgs) ==
    IF i > Len(possible_paths)
    THEN [value |-> None, messages |-> Append(msgs, NotFoundMsg)]
    ELSE LET path == possible_paths[i]
         IN IF os_path_exists(d, path)
            THEN IF read_csv_parses(d, path)
                 THEN [value |-> d[path].table, messages |-> msgs]
                 ELSE [value |-> None,
                       messages |-> msgs \o <<ReadErrorMsg(path), NotFoundMsg>>]
            ELSE load_from_stops(d, i + 1, msgs)

load_data_stops_at_unparsable(d) == load_from_stops(d, 1, <<>>)

\* faulty variant: a diagnostic for every candidate that is not read, absent ones too
RECURSIVE load_from_reports(_, _, _)
load_from_reports(d, i, msgs) ==
    IF i > Len(possible_paths)
    THEN [value |-> None, messages |-> Append(msgs, NotFoundMsg)]
    ELSE LET path == possible_paths[i]
         IN IF os_path_exists(d, path) /\ read_csv_parses(d, path)
            THEN [value |-> d[path].table, messages |-> msgs]
            ELSE load_from_reports(d, i + 1, Append(msgs, ReadErrorMsg(path)))

load_data_reports_absent(d) == load_from_reports(d, 1, <<>>)

\* the body of load_data
load_data(d) == load_from(d, 1, <<>>)

NoCache == [filled |-> FALSE]

\* faulty variant: the decorator left out: every call runs the body
cache_never_hit(c) == FALSE

\* st.cache_data: is there an entry to answer the call from
cache_hit(c) == c.filled

\* @st.cache_data def load_data(): the value returned, the elements shown
\* (replayed from the entry on a hit), the entry afterwards
cached_load_data(c, d) ==
    IF cache_hit(c)
    THEN [value |-> c.value, messages |-> c.messages, cache |-> c, ran |-> FALSE]
    ELSE LET r == load_data(d)
         IN [value |-> r.value, messages |-> r.messages, ran |-> TRUE,
             cache |-> [filled |-> TRUE, value |-> r.value, messages |-> r.messages]]

-----------------------------------------------------------------------------
(* Streamlit widgets and elements *)

Error(text) == [level |-> "error", text |-> text, path |-> ""]
Warning(text) == [level |-> "warning", text |-> text, path |-> ""]
Info(text) == [level |-> "info", text |-> text, path |-> ""]

SliderMin == 5
SliderMax == 50
SliderDefault == 15

\* st.selectbox(label, options, index): StreamlitAPIException when options is
\* not empty and index is outside it
selectbox_raises(options, index) ==
    Len(options) > 0 /\ ~(0 <= index /\ index < Len(options))

\* what the user can make st.selectbox return
selectbox_values(options) ==
    IF options = <<>> THEN {NoneStr} ELSE Range(options)

\* what the user can make st.sidebar.multiselect return
multiselect_values(options) == SUBSET Range(options)

\* Python truth value of a selectbox result
Truthy(v) == v # NoneStr /\ v # ""

\* faulty variant: the entry hands out its own object, as st.cache_resource does
cache_shares_value(c, t) == IF c.filled THEN [c EXCEPT !.value = t] ELSE c

\* st.cache_data returns a copy of the entry's value: mutating the returned
\* table leaves the entry as it was
cache_after_mutation(c, t) == c

-----------------------------------------------------------------------------
(* The derived views *)

\* line 49: sorted(df_raw['Sector'].unique())
all_sectors(t) == sorted(Range(Column(t, "Sector")))

\* faulty variant: no fallback for an empty selection
filtered_no_fallback(t, selected) == FilterIsin(t, selected)

\* lines 53-56
filtered(t, selected) == IF selected # {} THEN FilterIsin(t, selected) ELSE t

columns_to_compare ==
    << "Environment Risk Score", "Social Risk Score", "Governance Risk Score",
       "Total ESG Risk score", "Controversy Score" >>

\* line 89
valid_columns(t) == SelectSeq(columns_to_compare, LAMBDA c : HasColumn(t, c))

\* faulty variant: the name lower-cased before the test
is_risk_metric_lower(col) == Contains(Lower(col), "score")

\* line 105: is the column offered as a metric
is_risk_metric(col) == Contains(col, "Score") \/ Contains(col, "score")

RiskMetrics(columns) == SelectSeq(columns, is_risk_metric)

\* a number as a fraction, so that means compare exactly
Frac(n, d) == [num |-> n, den |-> d]

FracLess(a, b) == a.num * b.den < b.num * a.den

RECURSIVE SumSeq(_)
SumSeq(s) == IF s = <<>> THEN 0 ELSE Head(s) + SumSeq(Tail(s))

RemoveAt(s, i) == SubSeq(s, 1, i - 1) \o SubSeq(s, i + 1, Len(s))

\* may item a come before item b in a sort by key
MayPrecede(a, b, asc) == IF asc THEN ~FracLess(b.key, a.key) ELSE ~FracLess(a.key, b.key)

\* sort_values(kind='quicksort'), the default: the result is ordered by key,
\* and the order of items with equal keys is whatever the build's quicksort
\* leaves them in
RECURSIVE quicksort_orders(_, _)
quicksort_orders(items, asc) ==
    IF items = <<>> THEN {<<>>}
    ELSE LET firsts == {i \in 1..Len(items) :
                           /\ \A j \in 1..Len(items) : MayPrecede(items[i], items[j], asc)
                           /\ \A j \in 1..(i - 1) : items[j] # items[i]}
         IN UNION {{<<items[i]>> \o rest : rest \in quicksort_orders(RemoveAt(items, i), asc)}
                   : i \in firsts}

\* DataFrame.sort_values(by=col, ascending=asc) on the rows of t
sort_values(t, col, asc) ==
    LET items == [i \in 1..Len(t.rows) |-> [key |-> Frac(t.rows[i][col], 1), row |-> t.rows[i]]]
    IN {[i \in 1..Len(o) |-> o[i].row] : o \in quicksort_orders(items, asc)}

\* df.sort_values(by=None): KeyError
sort_values_raises(t, col) == ~HasColumn(t, col)

\* faulty variant: the checkbox ignored: always the highest scores
top_rows_ignores_direction(t, col, asc, n) == {head(s, n) : s \in sort_values(t, col, FALSE)}

\* line 130: df.sort_values(by=sort_by, ascending=ascending).head(top_n)
top_rows(t, col, asc, n) == {head(s, n) : s \in sort_values(t, col, asc)}

\* df.groupby('Sector')[metric].mean().reset_index(): one row per sector, in
\* sorted label order (groupby sorts its keys)
group_means(t, metric) ==
    LET labels == sorted(Range(Column(t, "Sector")))
        vals(s) == SelectSeq(t.rows, LAMBDA r : r["Sector"] = s)
    IN [i \in 1..Len(labels) |->
          [Sector |-> labels[i],
           mean |-> Frac(SumSeq([k \in 1..Len(vals(labels[i])) |-> vals(labels[i])[k][metric]]),
                         Len(vals(labels[i])))]]

\* faulty variant: ascending=False left out
sector_mean_of_ascending(t, metric) ==
    LET g == group_means(t, metric)
        items == [i \in 1..Len(g) |-> [key |-> g[i].mean, row |-> g[i]]]
    IN {[i \in 1..Len(o) |-> o[i].row] : o \in quicksort_orders(items, TRUE)}

\* line 110: ....sort_values(by=selected_metric, ascending=False)
sector_mean_of(t, metric) ==
    LET g == group_means(t, metric)
        items == [i \in 1..Len(g) |-> [key |-> g[i].mean, row |-> g[i]]]
    IN {[i \in 1..Len(o) |-> o[i].row] : o \in quicksort_orders(items, FALSE)}

\* plotly express: ValueError when an argument names no column of the frame
px_raises(t, args) == \E k \in 1..Len(args) : ~HasColumn(t, args[k])

IndexOf(s, v) == CHOOSE i \in 1..Len(s) : s[i] = v

\* line 153: index of the X-axis selectbox (0-based)
x_index(metrics) ==
    IF "Total ESG Risk score" \in Range(metrics)
    THEN IndexOf(metrics, "Total ESG Risk score") - 1 ELSE 0

\* line 155: index of the Y-axis selectbox (0-based)
y_index(metrics) ==
    IF "Controversy Score" \in Range(metrics)
    THEN IndexOf(metrics, "Controversy Score") - 1 ELSE 1

-----------------------------------------------------------------------------
(* Input tables *)

\* a row over the columns cols
MkRow(cols, sym, sec, tot, con) ==
    [c \in Range(cols) |->
        CASE c = "Symbol" -> sym
          [] c = "Sector" -> sec
          [] c = "Controversy Score" -> con
          [] OTHER -> tot]

SeqsUpTo(S, n) == UNION {[1..k -> S] : k \in 0..n}

Subseqs(pool) == {SelectSeq(pool, LAMBDA c : c \in S) : S \in SUBSET Range(pool)} \ {<<>>}

\* the files of the full-lifecycle specification
FileA ==
    [columns |-> <<"Symbol", "Sector", "Controversy Score">>,
     rows |-> << MkRow(<<"Symbol", "Sector", "Controversy Score">>, "AAA", NaN, 0, 2) >>]

FileB ==
    [columns |-> <<"Sector">>,
     rows |-> << MkRow(<<"Sector">>, "AAA", "Tech", 0, 0) >>]

Files == {FileA, FileB}

FileStates == {Absent, Corrupt} \cup {Csv(t) : t \in Files}

\* SpecViews: every subset of the expected columns, one or two companies
ViewColumnPool == <<"Symbol", "Sector", "Total ESG Risk score", "Controversy Score">>

ViewTables ==
    {[columns |-> cols,
      rows |-> [i \in 1..Len(pick) |->
                  IF pick[i] THEN MkRow(cols, "AAA", NaN, 1, 2)
                             ELSE MkRow(cols, "BBB", "Tech", 2, 1)]]
     : cols \in Subseqs(ViewColumnPool),
       pick \in SeqsUpTo(BOOLEAN, MaxViewRows) \ {<<>>}}

\* the i-th ticker symbol
SymbolAt(i) == SubSeq("ABCDEFGHIJ", i, i)

\* SpecFilter: every sequence of sector cells, blank ones included
FilterSectors == {NaN, "Unknown", "Tech", "Health"}

FilterColumns == <<"Symbol", "Sector", "Controversy Score">>

FilterTables ==
    {[columns |-> FilterColumns,
      rows |-> [i \in 1..Len(secs) |-> MkRow(FilterColumns, SymbolAt(i), secs[i], 0, i)]]
     : secs \in SeqsUpTo(FilterSectors, MaxFilterRows)}

\* SpecMetrics: column names in several casings
MetricColumnPool ==
    <<"Symbol", "Sector", "Total ESG Risk score", "Controversy Score", "ESG SCORE", "Risk sCore">>

MetricTables ==
    {[columns |-> cols, rows |-> << MkRow(cols, "AAA", "Tech", 1, 2) >>]
     : cols \in Subseqs(MetricColumnPool)}

\* SpecAgg: every assignment of sectors and metric values to the rows
AggSectors == {"Tech", "Health", "Energy"}

AggValues == {1, 2, 3}

AggColumns == <<"Symbol", "Sector", "Controversy Score">>

AggTables ==
    {[columns |-> AggColumns,
      rows |-> [i \in 1..Len(cells) |->
                  MkRow(AggColumns, SymbolAt(i), cells[i][1], 0, cells[i][2])]]
     : cells \in SeqsUpTo(AggSectors \X AggValues, MaxAggRows)}

\* SpecTopN: more rows than the slider's minimum, sectors alternating
TopColumns == <<"Symbol", "Sector", "Total ESG Risk score">>

TopValues == {0, 1}

TopTables ==
    {[columns |-> TopColumns,
      rows |-> [i \in 1..Len(vals) |->
                  MkRow(TopColumns, "AAA", IF i % 2 = 1 THEN "Tech" ELSE "Health", vals[i], 0)]]
     : vals \in SeqsUpTo(TopValues, MaxTopRows)}

Paths == Range(possible_paths)

-----------------------------------------------------------------------------
(* The script *)

FreshLocals ==
    /\ df = NoTable
    /\ selected_sectors = {}
    /\ risk_metrics = <<>>
    /\ selected_metric = Unset
    /\ sector_mean = <<>>
    /\ sort_by = Unset
    /\ top_n = 0
    /\ ascending = FALSE
    /\ sorted_df = <<>>
    /\ x_axis = Unset
    /\ y_axis = Unset
    /\ color_by = Unset

\* the state of a process that has not yet run the script
Fresh ==
    /\ cache = NoCache
    /\ body_runs = 0
    /\ pc = "start"
    /\ exc = ""
    /\ messages = <<>>
    /\ views = <<>>
    /\ df_raw = None
    /\ FreshLocals

\* the dataset at the first candidate path, nothing at the others
DiskWith(t) == [path \in Paths |-> IF path = possible_paths[1] THEN Csv(t) ELSE Absent]

NoDisk == [path \in Paths |-> Absent]

Init == disk \in [Paths -> FileStates] /\ Fresh

InitViews == disk \in ({NoDisk} \cup {DiskWith(t) : t \in ViewTables}) /\ Fresh

InitFilter == disk \in {DiskWith(t) : t \in FilterTables} /\ Fresh

InitMetrics == disk \in {DiskWith(t) : t \in MetricTables} /\ Fresh

InitAgg == disk \in {DiskWith(t) : t \in AggTables} /\ Fresh

InitTopN == disk \in {DiskWith(t) : t \in TopTables} /\ Fresh

\* line 38: df_raw = load_data()
RunLoad ==
    /\ pc = "start"
    /\ LET r == cached_load_data(cache, disk)
       IN /\ df_raw' = r.value
          /\ messages' = messages \o r.messages
          /\ cache' = r.cache
          /\ body_runs' = IF r.ran THEN Min(body_runs + 1, MaxBodyRuns) ELSE body_runs
    /\ pc' = "loaded"
    /\ UNCHANGED <<disk, exc, views, locals>>

\* lines 163-164: the else branch of `if df_raw is not None`
NoData ==
    /\ pc = "loaded"
    /\ df_raw = None
    /\ messages' = Append(messages, Warning("Please check the file path and try again."))
    /\ pc' = "done"
    /\ UNCHANGED <<env, exc, views, df_raw, locals>>

\* lines 47-60: sector coercion, multiselect and filter
SidebarFilter ==
    /\ pc = "loaded"
    /\ df_raw # None
    /\ IF HasColumn(df_raw, "Sector")
       THEN LET coerced == CoerceSector(df_raw)
            IN /\ df_raw' = coerced
               /\ cache' = cache_after_mutation(cache, coerced)
               /\ \E sel \in multiselect_values(all_sectors(coerced)) :
                    /\ selected_sectors' = sel
                    /\ df' = filtered(coerced, sel)
                    /\ messages' = IF sel # {} THEN messages
                                   ELSE Append(messages, Warning("No sectors selected. Showing all data."))
       ELSE /\ df' = df_raw
            /\ messages' = Append(messages, Error("Column 'Sector' not found in dataset"))
            /\ UNCHANGED <<df_raw, cache, selected_sectors>>
    /\ pc' = "sec1"
    /\ UNCHANGED <<disk, body_runs, exc, views, risk_metrics, selected_metric,
                   sector_mean, sort_by, top_n, ascending, sorted_df, x_axis,
                   y_axis, color_by>>

\* lines 63-82: data sample, statistical summary, sector distribution
Overview ==
    /\ pc = "sec1"
    /\ views' = views \o <<"data_sample", "summary">>
                      \o (IF HasColumn(df, "Sector") THEN <<"sector_distribution">> ELSE <<>>)
    /\ pc' = "sec2"
    /\ UNCHANGED <<env, exc, messages, df_raw, locals>>

\* lines 85-100: correlation heatmap
Correlation ==
    /\ pc = "sec2"
    /\ IF Len(valid_columns(df)) > 1
       THEN /\ views' = Append(views, "corr_heatmap")
            /\ messages' = Append(messages, Info("Insight"))
       ELSE /\ messages' = Append(messages, Warning("Not enough relevant columns found for correlation analysis."))
            /\ UNCHANGED views
    /\ pc' = "sec3"
    /\ UNCHANGED <<env, exc, df_raw, locals>>

\* lines 103-115: mean of the chosen metric by sector
SectorBreakdown ==
    /\ pc = "sec3"
    /\ risk_metrics' = RiskMetrics(df.columns)
    /\ \E m \in selectbox_values(risk_metrics') :
         /\ selected_metric' = m
         /\ IF Truthy(m) /\ HasColumn(df, "Sector")
            THEN /\ sector_mean' \in sector_mean_of(df, m)
                 /\ views' = Append(views, "sector_metric_bar")
            ELSE UNCHANGED <<sector_mean, views>>
    /\ pc' = "sec4"
    /\ UNCHANGED exc
    /\ UNCHANGED <<env, messages, df_raw, df, selected_sectors, sort_by, top_n,
                   ascending, sorted_df, x_axis, y_axis, color_by>>

\* lines 118-144: top companies table and bar chart
CompanyExplorer ==
    /\ pc = "sec4"
    /\ \E s \in selectbox_values(risk_metrics), n \in SliderMin..SliderMax, a \in BOOLEAN :
         /\ sort_by' = s
         /\ top_n' = n
         /\ ascending' = a
         /\ IF sort_values_raises(df, s)
            THEN /\ pc' = "raised"
                 /\ exc' = "KeyError"
                 /\ UNCHANGED <<sorted_df, views>>
            ELSE /\ sorted_df' \in top_rows(df, s, a, n)
                 /\ IF px_raises(df, <<s, "Symbol", s>>)
                    THEN /\ pc' = "raised"
                         /\ exc' = "ValueError"
                         /\ views' = Append(views, "top_table")
                    ELSE /\ pc' = "sec5"
                         /\ views' = views \o <<"top_table", "top_bar">>
                         /\ UNCHANGED exc
    /\ UNCHANGED <<env, messages, df_raw, df, selected_sectors, risk_metrics,
                   selected_metric, sector_mean, x_axis, y_axis, color_by>>

\* lines 147-161: scatter plot of two metrics
ScatterExplorer ==
    /\ pc = "sec5"
    /\ IF selectbox_raises(risk_metrics, x_index(risk_metrics))
       THEN /\ pc' = "raised"
            /\ exc' = "StreamlitAPIException"
            /\ UNCHANGED <<x_axis, y_axis, color_by, views>>
       ELSE \E x \in selectbox_values(risk_metrics) :
            /\ x_axis' = x
            /\ IF selectbox_raises(risk_metrics, y_index(risk_metrics))
               THEN /\ pc' = "raised"
                    /\ exc' = "StreamlitAPIException"
                    /\ UNCHANGED <<y_axis, color_by, views>>
               ELSE \E y \in selectbox_values(risk_metrics),
                       c \in selectbox_values(<<"Sector">> \o risk_metrics) :
                    /\ y_axis' = y
                    /\ color_by' = c
                    /\ IF px_raises(df, <<x, y, c, "Symbol">>)
                       THEN /\ pc' = "raised"
                            /\ exc' = "ValueError"
                            /\ UNCHANGED views
                       ELSE /\ pc' = "done"
                            /\ views' = Append(views, "scatter")
                            /\ UNCHANGED exc
    /\ UNCHANGED <<env, messages, df_raw, df, selected_sectors, risk_metrics,
                   selected_metric, sector_mean, sort_by, top_n, ascending,
                   sorted_df>>

\* a widget change: the whole script runs again in a fresh namespace
Rerun ==
    /\ pc \in {"done", "raised"}
    /\ pc' = "start"
    /\ exc' = ""
    /\ messages' = <<>>
    /\ views' = <<>>
    /\ df_raw' = None
    /\ df' = NoTable
    /\ selected_sectors' = {}
    /\ risk_metrics' = <<>>
    /\ selected_metric' = Unset
    /\ sector_mean' = <<>>
    /\ sort_by' = Unset
    /\ top_n' = 0
    /\ ascending' = FALSE
    /\ sorted_df' = <<>>
    /\ x_axis' = Unset
    /\ y_axis' = Unset
    /\ color_by' = Unset
    /\ UNCHANGED env

\* between two runs the environment creates, removes or rewrites a candidate file
DiskChange ==
    /\ pc \in {"done", "raised"}
    /\ \E path \in Paths, s \in FileStates :
         /\ s # disk[path]
         /\ disk' = [disk EXCEPT ![path] = s]
    /\ UNCHANGED <<cache, body_runs, pc, exc, messages, views, df_raw, locals>>

Body ==
    \/ NoData
    \/ SidebarFilter
    \/ Overview
    \/ Correlation
    \/ SectorBreakdown
    \/ CompanyExplorer
    \/ ScatterExplorer

Next ==
    \/ RunLoad
    \/ Body
    \/ Rerun
    \/ DiskChange

Spec == Init /\ [][Next]_vars

\* load_data called once on every state of the filesystem
SpecLoader == Init /\ [][RunLoad]_vars

\* one run of the script
SpecViews == InitViews /\ [][RunLoad \/ Body]_vars

\* one run as far as the sector filter
SpecFilter == InitFilter /\ [][RunLoad \/ SidebarFilter]_vars

UpToSection3 == RunLoad \/ SidebarFilter \/ Overview \/ Correlation \/ SectorBreakdown

\* one run as far as section 3
SpecMetrics == InitMetrics /\ [][UpToSection3]_vars

SpecAgg == InitAgg /\ [][UpToSection3]_vars

\* one run as far as section 4
SpecTopN == InitTopN /\ [][UpToSection3 \/ CompanyExplorer]_vars
-----------------------------------------------------------------------------
(* Properties *)

\* indices of the candidates that exist and parse
GoodCandidates == {i \in 1..Len(possible_paths) : disk[possible_paths[i]].kind = "csv"}

FirstGood == CHOOSE i \in GoodCandidates : \A j \in GoodCandidates : i <= j

AllAbsent == \A path \in Paths : disk[path].kind = "absent"

\* C1: load_data returns the table of the first candidate in list order that
\* exists and parses, and None exactly when no candidate exists and parses; a
\* candidate that exists but does not parse does not stop the search.
C1_FirstParsableWins ==
    pc = "loaded" =>
        /\ (GoodCandidates = {} <=> df_raw = None)
        /\ GoodCandidates # {} => df_raw = disk[possible_paths[FirstGood]].table

C1_Witness ==
    /\ pc = "loaded"
    /\ disk[possible_paths[1]].kind = "corrupt"
    /\ disk[possible_paths[2]].kind = "csv"
    /\ disk[possible_paths[3]].kind = "csv"
    /\ disk[possible_paths[3]] # disk[possible_paths[2]]
    /\ df_raw = disk[possible_paths[2]].table

\* C2 as claimed: when no candidate file exists, load_data returns None and the
\* run shows one diagnostic per candidate followed by the final message.
C2_DiagnosticPerCandidate ==
    (pc = "loaded" /\ AllAbsent) =>
        /\ df_raw = None
        /\ Len(messages) = Len(possible_paths) + 1
        /\ \A i \in 1..Len(possible_paths) : messages[i].path = possible_paths[i]
        /\ messages[Len(messages)] = NotFoundMsg

\* C2 as amended: the messages of load_data are one read-error diagnostic for
\* each candidate that exists but does not parse, tried before the first one
\* that parses, in list order, followed by the final message exactly when None
\* is returned; when no candidate file exists the final message is the only one.
C2_DiagnosticPerUnparsable ==
    pc = "loaded" =>
        LET n == Len(possible_paths)
            tried == IF GoodCandidates = {} THEN possible_paths
                     ELSE SubSeq(possible_paths, 1, FirstGood)
            unparsable == SelectSeq(tried, LAMBDA path : disk[path].kind = "corrupt")
            diagnostics == [k \in 1..Len(unparsable) |->
                              [level |-> "error", text |-> "Error reading file",
                               path |-> unparsable[k]]]
        IN /\ messages = diagnostics \o (IF df_raw = None THEN <<NotFoundMsg>> ELSE <<>>)
           /\ AllAbsent => (df_raw = None /\ messages = <<NotFoundMsg>>)

C2_Witness == pc = "loaded" /\ AllAbsent /\ df_raw = None /\ Len(messages) = 1

\* C3: whatever columns the loaded table has and whatever the widgets are set
\* to, no run of the script ends by raising.
C3_NoRunRaises == pc # "raised"

\* the sector of row i of table t after coercion
CoercedSector(t, i) == IF t.rows[i]["Sector"] = NaN THEN "Unknown" ELSE t.rows[i]["Sector"]

\* C4: after the filter step, with every distinct sector selected the filtered
\* table equals the unfiltered one; with a non-empty selection it holds exactly
\* the loaded rows whose coerced sector is selected, in their original order,
\* and filtering it again by the same selection changes nothing.
C4_FilterKeepsSelectedRows ==
    pc = "sec1" =>
        LET loaded == cache.value
            n == Len(loaded.rows)
            kept == {i \in 1..n : CoercedSector(loaded, i) \in selected_sectors}
        IN /\ Len(df_raw.rows) = n
           /\ \A i \in 1..n :
                df_raw.rows[i] = [loaded.rows[i] EXCEPT !["Sector"] = CoercedSector(loaded, i)]
           /\ selected_sectors = {CoercedSector(loaded, i) : i \in 1..n} => df = df_raw
           /\ selected_sectors # {} =>
                /\ df.columns = loaded.columns
                /\ Len(df.rows) = Cardinality(kept)
                /\ \E f \in [1..Len(df.rows) -> kept] :
                     /\ \A a, b \in 1..Len(df.rows) : a < b => f[a] < f[b]
                     /\ \A a \in 1..Len(df.rows) : df.rows[a] = df_raw.rows[f[a]]
                /\ FilterIsin(df, selected_sectors) = df

C4_Witness ==
    /\ pc = "sec1"
    /\ selected_sectors = {"Unknown", "Tech"}
    /\ \E i \in 1..Len(cache.value.rows) : cache.value.rows[i]["Sector"] = NaN
    /\ \E i \in 1..Len(cache.value.rows) : cache.value.rows[i]["Sector"] = "Health"
    /\ Len(df.rows) = 2

NoSectorsWarning == Warning("No sectors selected. Showing all data.")

\* C5: when the sector selection is empty, the table every later view works on
\* is the full unfiltered table, and the run shows a warning.
C5_EmptySelectionShowsAll ==
    (/\ pc \notin {"start", "loaded"}
     /\ df_raw # None
     /\ HasColumn(df_raw, "Sector")
     /\ selected_sectors = {}) =>
        /\ df = df_raw
        /\ Len(df.rows) = Len(cache.value.rows)
        /\ NoSectorsWarning \in Range(messages)

C5_Witness ==
    /\ pc = "done"
    /\ exc = ""
    /\ df_raw # None
    /\ HasColumn(df_raw, "Sector")
    /\ selected_sectors = {}
    /\ Len(df.rows) = 2
    /\ "scatter" \in Range(views)

\* the first row of t whose sector is s
FirstSeen(t, s) == CHOOSE i \in 1..Len(t.rows) :
                      /\ t.rows[i]["Sector"] = s
                      /\ \A j \in 1..(i - 1) : t.rows[j]["Sector"] # s

MeansDescending ==
    \A i, j \in 1..Len(sector_mean) :
        i < j => sector_mean[i].mean.num * sector_mean[j].mean.den
                     >= sector_mean[j].mean.num * sector_mean[i].mean.den

SameMean(i, j) ==
    sector_mean[i].mean.num * sector_mean[j].mean.den
        = sector_mean[j].mean.num * sector_mean[i].mean.den

\* C6 as claimed: the sector groups are listed by descending mean, and groups
\* with equal means in the order in which their sectors first appear in the
\* table.
C6_TiesKeepFirstSeenOrder ==
    pc = "sec4" =>
        /\ MeansDescending
        /\ \A i, j \in 1..Len(sector_mean) :
             (i < j /\ SameMean(i, j)) =>
                 FirstSeen(df, sector_mean[i].Sector) < FirstSeen(df, sector_mean[j].Sector)

\* C6 as amended: every sector of the table is listed once with the arithmetic
\* mean of the metric over its rows, and the list is in descending order of
\* mean; the order of groups with equal means is not determined.
C6_DescendingByMean ==
    pc = "sec4" =>
        LET rowsOf(s) == {i \in 1..Len(df.rows) : df.rows[i]["Sector"] = s}
            total(s) == SumSeq([i \in 1..Len(df.rows) |->
                                  IF i \in rowsOf(s) THEN df.rows[i][selected_metric] ELSE 0])
        IN /\ {sector_mean[i].Sector : i \in 1..Len(sector_mean)}
                = {df.rows[i]["Sector"] : i \in 1..Len(df.rows)}
           /\ \A i, j \in 1..Len(sector_mean) :
                i # j => sector_mean[i].Sector # sector_mean[j].Sector
           /\ \A i \in 1..Len(sector_mean) :
                sector_mean[i].mean.num * Cardinality(rowsOf(sector_mean[i].Sector))
                    = total(sector_mean[i].Sector) * sector_mean[i].mean.den
           /\ MeansDescending

C6_Witness ==
    /\ pc = "sec4"
    /\ Len(sector_mean) = 3
    /\ ~SameMean(1, 2)
    /\ SameMean(2, 3)
    /\ Len(df.rows) = 3

\* C7: the Top-N table has min(N, row count) rows of the filtered table, N in
\* 5..50, ordered by the metric in the chosen direction, and its first row
\* holds the maximum of the metric over the filtered table when descending,
\* the minimum when ascending.
C7_TopN ==
    pc = "sec5" =>
        LET n == Len(df.rows)
            v(r) == r[sort_by]
        IN /\ top_n \in SliderMin..SliderMax
           /\ Len(sorted_df) = (IF top_n < n THEN top_n ELSE n)
           /\ \A i \in 1..Len(sorted_df) : sorted_df[i] \in Range(df.rows)
           /\ \A i, j \in 1..Len(sorted_df) :
                i < j => IF ascending THEN v(sorted_df[i]) <= v(sorted_df[j])
                                      ELSE v(sorted_df[i]) >= v(sorted_df[j])
           /\ n > 0 => \A k \in 1..n :
                IF ascending THEN v(sorted_df[1]) <= v(df.rows[k])
                             ELSE v(sorted_df[1]) >= v(df.rows[k])

C7_Witness ==
    /\ pc = "sec5"
    /\ top_n < Len(df.rows)
    /\ ascending
    /\ Len(sorted_df) = top_n
    /\ \E k \in 1..Len(df.rows) : df.rows[k][sort_by] > sorted_df[1][sort_by]
    /\ df.rows[1][sort_by] > sorted_df[1][sort_by]

\* C8 as claimed: the metrics offered are the columns whose name contains
\* "score" compared case-insensitively.
C8_CaseInsensitive ==
    pc = "sec4" =>
        risk_metrics = SelectSeq(df.columns, LAMBDA c : Contains(Lower(c), "score"))

\* C8 as amended: the metrics offered are the columns, in table order, whose
\* name contains "Score" or "score": only the first letter may be in either
\* case.
C8_CapitalOrSmallS ==
    pc = "sec4" =>
        risk_metrics =
            SelectSeq(df.columns,
                      LAMBDA c : \E i \in 1..(Len(c) - 4) :
                                    /\ SubSeq(c, i, i) \in {"S", "s"}
                                    /\ SubSeq(c, i + 1, i + 4) = "core")

C8_Witness ==
    /\ pc = "sec4"
    /\ {"ESG SCORE", "Risk sCore", "Total ESG Risk score", "Controversy Score"}
           \subseteq Range(df.columns)
    /\ risk_metrics = <<"Total ESG Risk score", "Controversy Score">>

\* C9: across re-runs the body of load_data executes at most once, every call
\* returns the memoized result, and the memoized result never changes.
C9_LoadedOnce ==
    /\ [](body_runs <= 1)
    /\ [](pc = "loaded" => (cache.filled /\ df_raw = cache.value))
    /\ [][cache.filled => cache' = cache]_vars

\* a later run answered from the memo although the files now say otherwise
C9_Witness ==
    /\ pc = "loaded"
    /\ body_runs = 1
    /\ df_raw = cache.value
    /\ df_raw # load_data(disk).value

\* C10 as claimed: once loaded, df_raw is never changed by a step of the run.
C10_RawNeverMutated == [][pc # "start" => df_raw' = df_raw]_vars

\* C10 as amended: the memoized table is never changed by a run; the run's own
\* df_raw is changed in place by the sector coercion alone, which rewrites
\* blank cells of the Sector column to "Unknown" and nothing else; the filter
\* and the views leave df_raw as it is.
C10_OnlyCoercionMutatesRaw ==
    [][/\ cache.filled => cache' = cache
       /\ pc \notin {"start", "loaded"} => df_raw' = df_raw
       /\ (pc = "loaded" /\ df_raw # None) =>
            /\ df_raw'.columns = df_raw.columns
            /\ Len(df_raw'.rows) = Len(df_raw.rows)
            /\ \A i \in 1..Len(df_raw.rows) : \A c \in Range(df_raw.columns) :
                 df_raw'.rows[i][c] =
                     IF c = "Sector" /\ df_raw.rows[i][c] = NaN
                     THEN "Unknown" ELSE df_raw.rows[i][c]]_vars

\* the run's table differs from the memoized one after the coercion
C10_Witness ==
    /\ pc = "done"
    /\ df_raw # None
    /\ df_raw # cache.value
    /\ \E i \in 1..Len(cache.value.rows) : cache.value.rows[i]["Sector"] = NaN
====
